---- MODULE Spec2Model ----
(***************************************************************************)
(* Model of the deployment orchestrator of maestro                         *)
(* (src/maestro/routers/deploy.py): the /deploy command handler, the       *)
(* deploy:* callback handler, the menu screens, the concurrent execution   *)
(* of the actions of a request and the delivery of their results.          *)
(*                                                                         *)
(* Strings that are split or concatenated by the code are sequences of     *)
(* atoms, where the atom ":" is the colon character and every other atom   *)
(* is a run of characters without a colon.  "deploy:server:alpha" is       *)
(* <<"deploy", ":", "server", ":", "alpha">>.                              *)
(***************************************************************************)
EXTENDS Integers, Sequences, FiniteSets, TLC

(***************************************************************************)
(* Bounds of the model.                                                    *)
(***************************************************************************)
\* number of actions declared for server alpha
MaxActions == 3

(***************************************************************************)
(* Strings.                                                                *)
(***************************************************************************)
Colon == ":"

\* a string without a colon
S(a) == <<a>>

\* str.startswith
StartsWith(s, prefix) ==
    /\ Len(s) >= Len(prefix)
    /\ SubSeq(s, 1, Len(prefix)) = prefix

\* index of the first colon of s, 0 when there is none
FirstColon(s) ==
    IF \E k \in 1..Len(s) : s[k] = Colon
    THEN CHOOSE k \in 1..Len(s) : s[k] = Colon /\ \A j \in 1..(k - 1) : s[j] # Colon
    ELSE 0

\* str.split(":", maxsplit): at most maxsplit cuts, from the left
RECURSIVE Split(_, _)
Split(s, maxsplit) ==
    IF maxsplit = 0 \/ FirstColon(s) = 0
    THEN <<s>>
    ELSE <<SubSeq(s, 1, FirstColon(s) - 1)>>
            \o Split(SubSeq(s, FirstColon(s) + 1, Len(s)), maxsplit - 1)

(***************************************************************************)
(* The registry (maestro.config.Config): read-only for the life of the     *)
(* process.  Chat 1 is a platform-wide operator, chat 2 is allowed on      *)
(* alpha only, chat 3 is allowed nowhere.                                  *)
(***************************************************************************)
Chats == {1, 2, 3}

\* config.allowed_chat_ids
GlobalAllowed == {1}

ActionPool == <<S("build"), S("test"), S("restart"), S("status"), S("logs"), S("tail")>>

\* config.servers, in declaration order (dict order)
ServerNames == <<S("alpha"), S("beta")>>

\* a Server object; actions lists the keys of server.actions in dict order
Server(name) ==
    IF name = S("alpha")
    THEN [name |-> S("alpha"), allowed_chat_ids |-> {2},
          actions |-> SubSeq(ActionPool, 1, MaxActions), allow_run_all |-> TRUE]
    ELSE [name |-> S("beta"), allowed_chat_ids |-> {},
          actions |-> <<S("ping"), S("reload")>>, allow_run_all |-> FALSE]

Range(seq) == {seq[k] : k \in 1..Len(seq)}

\* config.servers.get(name) is not None
HasServer(name) == name \in Range(ServerNames)

\* the lookup of an action that is never missing
HasActionUnchecked(server_name, action) == TRUE

\* server.actions.get(action) is not None
HasAction(server_name, action) == action \in Range(Server(server_name).actions)

\* the value of dict.get for a missing key
NoneAction == S("<None>")

\* server_obj.actions.get(action)
GetAction(server_name, action) ==
    IF HasAction(server_name, action) THEN action ELSE NoneAction

\* the access check with the allow-list of any server in place of the one of
\* the server asked for
IsAllowedOnSomeServer(chat_id, server_name) ==
    \/ chat_id \in GlobalAllowed
    \/ \E k \in 1..Len(ServerNames) : chat_id \in Server(ServerNames[k]).allowed_chat_ids

\* chat_id in config.allowed_chat_ids or chat_id in server.allowed_chat_ids
IsAllowed(chat_id, server_name) ==
    chat_id \in GlobalAllowed \/ chat_id \in Server(server_name).allowed_chat_ids

(***************************************************************************)
(* Texts, files and the calls made on the chat transport.                  *)
(***************************************************************************)
\* a message text or caption: a fixed phrase with the names put into it
Text(kind, action, server, lines) ==
    [kind |-> kind, action |-> action, server |-> server, lines |-> lines]

Phrase(kind) == Text(kind, <<>>, <<>>, <<>>)

\* f"Result of action {action.name} on {server_name}"
ResultText(action, server) == Text("Result of action", action, server, <<>>)

\* f"{action.name}: {error}"
ErrorLine(action, error) == action \o <<Colon>> \o error

\* an io.BytesIO: its bytes, the read position (0 or the end) and closed
\* none: the value is Python's None, not a file
File(data) == [data |-> data, at_end |-> FALSE, closed |-> FALSE, none |-> FALSE]

NoFile == [data |-> <<>>, at_end |-> TRUE, closed |-> TRUE, none |-> TRUE]

\* file.read(): the bytes from the position to the end
Read(f) == IF f.at_end THEN <<>> ELSE f.data

\* the file after read()
AfterRead(f) == [f EXCEPT !.at_end = TRUE]

\* the file after seek(0)
Seek0(f) == [f EXCEPT !.at_end = FALSE]

\* the file after close()
Close(f) == [f EXCEPT !.closed = TRUE]

\* the combined stdout and stderr of the command of an action on a server
Output(server_name, action) == <<"output">> \o server_name \o action

\* text_to_png(text): the image, returned as a file to be read from the start
TextToPng(text) == File(<<"png">> \o text)

\* BytesIO(text.encode()) followed by seek(0)
TxtFile(text) == Seek0(File(<<"txt">> \o text))

\* one call on the chat transport: the method, the caller (the update handler
\* or the background task), the message it targets (0: none), what it carries
\* and whether the transport accepted it
Call(op, who, target, text, markup, png, txt, ok) ==
    [op |-> op, who |-> who, target |-> target, text |-> text,
     markup |-> markup, png |-> png, txt |-> txt, ok |-> ok]

(***************************************************************************)
(* The menu screens.  Each makes exactly one call on the transport; the    *)
(* operators give that call.                                               *)
(***************************************************************************)
\* the servers chat_id may deploy to, in registry order
RECURSIVE AccessibleFrom(_, _)
AccessibleFrom(chat_id, k) ==
    IF k > Len(ServerNames) THEN <<>>
    ELSE (IF IsAllowed(chat_id, ServerNames[k]) THEN <<ServerNames[k]>> ELSE <<>>)
            \o AccessibleFrom(chat_id, k + 1)

AccessibleServers(chat_id) == AccessibleFrom(chat_id, 1)

\* callback_data=f"deploy:server:{server_name}"
ServerToken(server_name) == <<"deploy", Colon, "server", Colon>> \o server_name

\* the token of an action button with the action set off by a slash
ActionTokenSlash(server_name, action_name) ==
    <<"deploy", Colon, "action", Colon>> \o server_name \o <<"/">> \o action_name

\* callback_data=f"deploy:action:{server_name}:{action_name}"
ActionToken(server_name, action_name) ==
    <<"deploy", Colon, "action", Colon>> \o server_name \o <<Colon>> \o action_name

\* callback_data="deploy:menu"
MenuToken == <<"deploy", Colon, "menu">>

All == S("all")

\* the buttons of the action screen with the run-all button put
\* unconditionally
ActionButtonsAlwaysAll(server_name) ==
    [k \in 1..Len(Server(server_name).actions) |->
        ActionToken(server_name, Server(server_name).actions[k])]
    \o <<ActionToken(server_name, All)>>
    \o <<MenuToken>>

\* the callback_data of the buttons of the action screen of a server
ActionButtons(server_name) ==
    [k \in 1..Len(Server(server_name).actions) |->
        ActionToken(server_name, Server(server_name).actions[k])]
    \o (IF Server(server_name).allow_run_all
        THEN <<ActionToken(server_name, All)>> ELSE <<>>)
    \o <<MenuToken>>

\* show_action_selection without the test of the allow-lists
ShowActionSelectionUnchecked(message, chat_id, server_name, is_callback, ok) ==
    LET op == IF is_callback THEN "edit_text" ELSE "reply"
        screen(text, markup) == Call(op, "handler", message, text, markup, <<>>, <<>>, ok)
    IN  IF ~HasServer(server_name)
        THEN screen(Phrase("Server not found"), <<>>)
        ELSE screen(Text("Select an action for server", <<>>, server_name, <<>>),
                    ActionButtons(server_name))

\* show_action_selection
ShowActionSelection(message, chat_id, server_name, is_callback, ok) ==
    LET op == IF is_callback THEN "edit_text" ELSE "reply"
        screen(text, markup) == Call(op, "handler", message, text, markup, <<>>, <<>>, ok)
    IN  IF ~HasServer(server_name)
        THEN screen(Phrase("Server not found"), <<>>)
        ELSE IF ~IsAllowed(chat_id, server_name)
        THEN screen(Phrase("You are not allowed to deploy to this server"), <<>>)
        ELSE screen(Text("Select an action for server", <<>>, server_name, <<>>),
                    ActionButtons(server_name))

\* show_server_selection skipping a menu of one server whoever the caller is
ShowServerSelectionAlwaysSkips(message, chat_id, is_callback, standalone, auto_select_single, ok) ==
    LET accessible_servers == AccessibleServers(chat_id)
        buttons == [k \in 1..Len(accessible_servers) |-> ServerToken(accessible_servers[k])]
        op == IF is_callback THEN "edit_text"
              ELSE IF standalone THEN "send_message" ELSE "reply"
    IN  IF Len(buttons) = 0
        THEN Call(IF is_callback THEN "edit_text" ELSE "reply", "handler", message,
                  Phrase("You don't have access to any servers."), <<>>, <<>>, <<>>, ok)
        ELSE IF Len(accessible_servers) = 1
        THEN ShowActionSelection(message, chat_id, accessible_servers[1], is_callback, ok)
        ELSE Call(op, "handler", IF op = "send_message" THEN 0 ELSE message,
                  Phrase("Select a server:"), buttons, <<>>, <<>>, ok)

\* show_server_selection
ShowServerSelection(message, chat_id, is_callback, standalone, auto_select_single, ok) ==
    LET accessible_servers == AccessibleServers(chat_id)
        buttons == [k \in 1..Len(accessible_servers) |-> ServerToken(accessible_servers[k])]
        op == IF is_callback THEN "edit_text"
              ELSE IF standalone THEN "send_message" ELSE "reply"
    IN  IF Len(buttons) = 0
        THEN Call(IF is_callback THEN "edit_text" ELSE "reply", "handler", message,
                  Phrase("You don't have access to any servers."), <<>>, <<>>, <<>>, ok)
        ELSE IF auto_select_single /\ Len(accessible_servers) = 1
        THEN ShowActionSelection(message, chat_id, accessible_servers[1], is_callback, ok)
        ELSE Call(op, "handler", IF op = "send_message" THEN 0 ELSE message,
                  Phrase("Select a server:"), buttons, <<>>, <<>>, ok)

(***************************************************************************)
(* run_action: one blocking remote command.  fault is where the remote     *)
(* side fails: nowhere, in connect_to_server, or in exec_command or the    *)
(* read of its output (after the connection was opened).                   *)
(***************************************************************************)
\* "eof" is a failure of the read whose exception carries no message
\* (EOFError()): str(e) is the empty string
Faults == {"none", "connect", "exec", "eof"}

\* str(e) of the exception of a fault
ErrorOf(fault) ==
    IF fault = "connect" THEN S("connection refused")
    ELSE IF fault = "exec" THEN S("command failed")
    ELSE <<>>

\* the result of run_action: the two files, or the exception; opened and
\* closed count the connections it opened and closed
RunAction(server_name, action, fault) ==
    [fault     |-> fault,
     raised    |-> fault # "none",
     error     |-> IF fault = "none" THEN <<>> ELSE ErrorOf(fault),
     txt_file  |-> IF fault = "none" THEN TxtFile(Output(server_name, action)) ELSE NoFile,
     png_file  |-> IF fault = "none" THEN TextToPng(Output(server_name, action)) ELSE NoFile,
     opened    |-> IF fault = "connect" THEN 0 ELSE 1,
     closed    |-> IF fault = "none" THEN 1 ELSE 0]

(***************************************************************************)
(* State.  req[r] is the state of request r: the coroutine of the update   *)
(* handler (hpc and its locals) and the background task created by         *)
(* execute_deployment (tpc and its locals), with the history of what the   *)
(* request did: calls, the calls made on the chat transport, and ran, the  *)
(* remote commands run.  next_message_id is the id the transport gives to  *)
(* the next message whose handle the code keeps (the incoming message, the *)
(* "Running action" reply, the placeholders); open_connections counts the  *)
(* connections opened by run_action and not closed.                        *)
(***************************************************************************)
VARIABLES req, next_message_id, open_connections

vars == <<req, next_message_id, open_connections>>

\* the requests of the specification Spec
Reqs == {1}

Idle ==
    [hpc |-> "idle", tpc |-> "none", exc |-> "none", task_exc |-> "none",
     kind |-> "none", chat_id |-> 0, message |-> 0, data |-> <<>>, args |-> <<>>,
     server_name |-> <<>>, action_name |-> <<>>, actions |-> <<>>,
     i |-> 0, info |-> 0, txt_file |-> NoFile, png_file |-> NoFile,
     placeholder_msgs |-> <<>>, progress_msg |-> 0,
     action_results |-> <<>>, results |-> <<>>, errors |-> <<>>, all_media_data |-> <<>>,
     calls |-> <<>>, ran |-> <<>>]

Init ==
    /\ req = [r \in Reqs |-> Idle]
    /\ next_message_id = 1
    /\ open_connections = 0

\* the handler of r makes call c and ends: it returns if the transport
\* accepted the call and dies of the transport's exception otherwise
EndWith(q, c) ==
    [q EXCEPT !.calls = Append(@, c),
              !.hpc = IF c.ok THEN "done" ELSE "crashed",
              !.exc = IF c.ok THEN "none" ELSE "TransportError"]

\* message.reply(text) by the handler
Reply(message, text, ok) == Call("reply", "handler", message, Phrase(text), <<>>, <<>>, <<>>, ok)

(***************************************************************************)
(* /deploy and /d: handle_command_deploy.                                  *)
(***************************************************************************)
\* the arguments tried: none, one, three, and every pair of a server name
\* and an action selector, known or not
Ghost == S("ghost")

Nope == S("nope")

ServerArgs == Range(ServerNames) \cup {Ghost}

ActionArgs ==
    Range(Server(S("alpha")).actions) \cup Range(Server(S("beta")).actions) \cup {All, Nope}

ArgLists ==
    {<<>>, <<S("alpha")>>, <<S("alpha"), S("build"), S("now")>>}
        \cup {<<s, a>> : s \in ServerArgs, a \in ActionArgs}

\* lines 48-75 up to the first call on the transport
StartCommand(r, chat_id, args, ok) ==
    /\ req[r].hpc = "idle"
    /\ LET message == next_message_id
           q == [req[r] EXCEPT !.kind = "command", !.chat_id = chat_id,
                               !.message = message, !.args = args]
       IN  /\ next_message_id' = next_message_id + 1
           /\ IF Len(args) = 2
              THEN LET server == args[1]
                       action == args[2]
                       first == <<GetAction(server, action)>>
                       actions == IF action = All THEN Server(server).actions ELSE first
                   IN  IF ~HasServer(server)
                       THEN req' = [req EXCEPT ![r] =
                                EndWith(q, Reply(message, "Server not found", ok))]
                       ELSE IF ~IsAllowed(chat_id, server)
                       THEN req' = [req EXCEPT ![r] =
                                EndWith(q, Reply(message,
                                    "You are not allowed to deploy to this server", ok))]
                       ELSE IF Len(first) = 0 /\ action # All
                       THEN req' = [req EXCEPT ![r] =
                                EndWith(q, Reply(message, "Action not found", ok))]
                       ELSE req' = [req EXCEPT ![r] =
                                [q EXCEPT !.server_name = server, !.action_name = action,
                                          !.actions = actions, !.i = 1,
                                          !.hpc = IF Len(actions) = 0 THEN "done"
                                                  ELSE "use_case"]]
              ELSE req' = [req EXCEPT ![r] =
                       EndWith(q, ShowServerSelection(message, chat_id, FALSE, FALSE, TRUE, ok))]
    /\ UNCHANGED open_connections

\* deploy_use_case line 445: the "Running action" reply.  The name of the
\* action is read first: of a missing action (None) it raises AttributeError
UseCaseInfo(r, ok) ==
    /\ req[r].hpc = "use_case"
    /\ LET q == req[r]
           action == q.actions[q.i]
       IN  IF action = NoneAction
           THEN /\ req' = [req EXCEPT ![r] =
                        [q EXCEPT !.hpc = "crashed", !.exc = "AttributeError"]]
                /\ UNCHANGED next_message_id
           ELSE LET c == Call("reply", "handler", q.message,
                              Text("Running action", action, Server(q.server_name).name, <<>>),
                              <<>>, <<>>, <<>>, ok)
                IN  /\ req' = [req EXCEPT ![r] =
                            [q EXCEPT !.calls = Append(@, c),
                                      !.info = IF ok THEN next_message_id ELSE 0,
                                      !.hpc = IF ok THEN "use_case_run" ELSE "crashed",
                                      !.exc = IF ok THEN "none" ELSE "TransportError"]]
                    /\ next_message_id' = IF ok THEN next_message_id + 1 ELSE next_message_id
    /\ UNCHANGED open_connections

\* deploy_use_case line 446: run_action, called in the handler itself
UseCaseRun(r, fault) ==
    /\ req[r].hpc = "use_case_run"
    /\ LET q == req[r]
           action == q.actions[q.i]
           res == RunAction(q.server_name, action, fault)
       IN  /\ req' = [req EXCEPT ![r] =
                   [q EXCEPT !.ran = Append(@, action),
                             !.txt_file = res.txt_file, !.png_file = res.png_file,
                             !.hpc = IF res.raised THEN "crashed" ELSE "use_case_send",
                             !.exc = IF res.raised THEN "ExecError" ELSE "none"]]
           /\ open_connections' = open_connections + res.opened - res.closed
    /\ UNCHANGED next_message_id

\* deploy_use_case lines 448-458 and the loop of lines 71-73
UseCaseSend(r, ok) ==
    /\ req[r].hpc = "use_case_send"
    /\ LET q == req[r]
           action == q.actions[q.i]
           c == Call("reply_media_group", "handler", q.info,
                     ResultText(action, Server(q.server_name).name), <<>>,
                     Read(q.png_file), Read(q.txt_file), ok)
       IN  /\ req' = [req EXCEPT ![r] =
                   [q EXCEPT !.calls = Append(@, c),
                             !.png_file = IF ok THEN Close(AfterRead(@)) ELSE AfterRead(@),
                             !.txt_file = IF ok THEN Close(AfterRead(@)) ELSE AfterRead(@),
                             !.i = IF ok THEN @ + 1 ELSE @,
                             !.hpc = IF ~ok THEN "crashed"
                                     ELSE IF q.i + 1 > Len(q.actions) THEN "done"
                                     ELSE "use_case",
                             !.exc = IF ok THEN "none" ELSE "TransportError"]]
    /\ UNCHANGED <<next_message_id, open_connections>>

(***************************************************************************)
(* Callback queries whose data starts with "deploy:":                      *)
(* handle_deploy_callback and execute_deployment.                          *)
(***************************************************************************)
DeployPrefix == <<"deploy", Colon>>

\* tokens no screen emits: incomplete, unknown, or with a part too many
Malformed ==
    {DeployPrefix,
     <<"deploy", Colon, "server">>,
     <<"deploy", Colon, "server", Colon>>,
     <<"deploy", Colon, "action", Colon, "alpha">>,
     <<"deploy", Colon, "foo">>,
     <<"deploy", Colon, "foo", Colon, "alpha", Colon, "build">>,
     <<"deploy", Colon, "menu", Colon, "x">>,
     <<"deploy", Colon, "server", Colon, "alpha", Colon, "x">>,
     ActionToken(S("alpha"), <<"build", Colon, "x">>)}

Tokens ==
    {MenuToken} \cup {ServerToken(s) : s \in ServerArgs}
        \cup {ActionToken(s, a) : s \in ServerArgs, a \in ActionArgs}
        \cup Malformed

\* callback.answer(text, show_alert=True), or callback.answer() when text is ""
Answer(text, ok) == Call("answer", "handler", 0, Phrase(text), <<>>, <<>>, <<>>, ok)

\* the handler of r makes call c and goes on to callback.answer(), unless the
\* transport raised
ThenAnswer(q, c) ==
    [q EXCEPT !.calls = Append(@, c),
              !.hpc = IF c.ok THEN "answer" ELSE "crashed",
              !.exc = IF c.ok THEN "none" ELSE "TransportError"]

\* f"Running: {action_list} on {server_name}..."
ProgressText(actions, server_name) == Text("Running", <<>>, server_name, actions)

PlaceholderPng == <<"png", "Loading results...">>

PlaceholderTxt == <<"Loading...">>

\* execute_deployment lines 233-276: up to the send of the placeholder group
ExecuteDeployment(q, message, chat_id, server_name, action_name, ok, new_id) ==
    LET actions == IF action_name = All THEN Server(server_name).actions
                   ELSE <<GetAction(server_name, action_name)>>
        placeholders == Call("send_media_group", "handler", 0,
                             ProgressText(actions, server_name), <<>>,
                             PlaceholderPng, PlaceholderTxt, ok)
    IN  IF ~HasServer(server_name)
        THEN ThenAnswer(q, Reply(message, "Server not found", ok))
        ELSE IF ~IsAllowed(chat_id, server_name)
        THEN ThenAnswer(q, Reply(message, "You are not allowed to deploy to this server", ok))
        ELSE IF action_name # All /\ ~HasAction(server_name, action_name)
        THEN ThenAnswer(q, Reply(message, "Action not found", ok))
        ELSE [q EXCEPT !.server_name = server_name, !.action_name = action_name,
                       !.actions = actions,
                       !.calls = Append(@, placeholders),
                       !.placeholder_msgs = IF ok THEN <<new_id, new_id + 1>> ELSE <<>>,
                       !.progress_msg = IF ok THEN new_id ELSE 0,
                       !.hpc = IF ok THEN "delete_menu" ELSE "crashed",
                       !.exc = IF ok THEN "none" ELSE "TransportError"]

\* the branch of handle_deploy_callback taken for the fields of a token, and
\* the arguments it passes on
Dispatch(parts) ==
    LET to(handler, server_name, action_name) ==
            [handler |-> handler, server_name |-> server_name, action_name |-> action_name]
    IN  IF Len(parts) < 2 THEN to("invalid", <<>>, <<>>)
        ELSE IF parts[2] = S("menu") THEN to("show_server_selection", <<>>, <<>>)
        ELSE IF parts[2] = S("server") /\ Len(parts) >= 3
        THEN to("show_action_selection", parts[3], <<>>)
        ELSE IF parts[2] = S("action") /\ Len(parts) >= 4
        THEN to("execute_deployment", parts[3], parts[4])
        ELSE to("unknown", <<>>, <<>>)

\* handle_deploy_callback up to the first call on the transport
StartCallback(r, chat_id, data, ok) ==
    /\ req[r].hpc = "idle"
    /\ StartsWith(data, DeployPrefix)
    /\ LET message == next_message_id
           parts == Split(data, 3)
           q == [req[r] EXCEPT !.kind = "callback", !.chat_id = chat_id,
                               !.message = message, !.data = data]
           to == Dispatch(parts)
           after ==
               CASE to.handler = "invalid" ->
                        EndWith(q, Answer("Invalid callback data", ok))
                 [] to.handler = "show_server_selection" ->
                        ThenAnswer(q, ShowServerSelection(message, chat_id, TRUE, FALSE, FALSE, ok))
                 [] to.handler = "show_action_selection" ->
                        ThenAnswer(q, ShowActionSelection(message, chat_id, to.server_name,
                                                          TRUE, ok))
                 [] to.handler = "execute_deployment" ->
                        ExecuteDeployment(q, message, chat_id, to.server_name, to.action_name,
                                          ok, next_message_id + 1)
                 [] to.handler = "unknown" ->
                        EndWith(q, Answer("Unknown action", ok))
       IN  /\ req' = [req EXCEPT ![r] = after]
           /\ next_message_id' = next_message_id + 1 + Len(after.placeholder_msgs)
    /\ UNCHANGED open_connections

\* execute_deployment lines 279-282: the menu that held the button is
\* deleted; an exception of the transport is swallowed
DeleteMenu(r, ok) ==
    /\ req[r].hpc = "delete_menu"
    /\ req' = [req EXCEPT ![r] =
           [@ EXCEPT !.calls = Append(@, Call("delete", "handler", req[r].message,
                                             Phrase(""), <<>>, <<>>, <<>>, ok)),
                     !.hpc = "show_menu"]]
    /\ UNCHANGED <<next_message_id, open_connections>>

\* execute_deployment lines 284-292: the server menu is sent as a new
\* message, then the background task is created
ShowMenu(r, ok) ==
    /\ req[r].hpc = "show_menu"
    /\ LET q == req[r]
           c == ShowServerSelection(q.progress_msg, q.chat_id, FALSE, TRUE, FALSE, ok)
       IN  /\ req' = [req EXCEPT ![r] =
                   [q EXCEPT !.calls = Append(@, c),
                             !.hpc = IF ok THEN "answer" ELSE "crashed",
                             !.exc = IF ok THEN "none" ELSE "TransportError",
                             !.tpc = IF ok THEN "created" ELSE "none"]]
    /\ UNCHANGED <<next_message_id, open_connections>>

\* handle_deploy_callback lines 89, 95, 102: callback.answer()
AnswerCallback(r, ok) ==
    /\ req[r].hpc = "answer"
    /\ req' = [req EXCEPT ![r] = EndWith(@, Answer("", ok))]
    /\ UNCHANGED <<next_message_id, open_connections>>

(***************************************************************************)
(* The background task: run_deployment_async.                              *)
(***************************************************************************)
\* the slot of asyncio.gather for a coroutine that has not returned yet
Pending ==
    [done |-> FALSE, png_file |-> NoFile, txt_file |-> NoFile, action |-> <<>>,
     error |-> <<>>, fault |-> "none"]

\* run_single_action with an except clause that drops the exception
SingleActionResultErrorDropped(action, res) ==
    [done |-> TRUE, png_file |-> IF res.raised THEN NoFile ELSE res.png_file,
     txt_file |-> IF res.raised THEN NoFile ELSE res.txt_file,
     action |-> action, error |-> <<>>, fault |-> res.fault]

\* run_single_action: the 4-tuple returned for the result res of run_action;
\* fault is kept for the history only, the code does not have it
SingleActionResult(action, res) ==
    [done |-> TRUE,
     png_file |-> IF res.raised THEN NoFile ELSE res.png_file,
     txt_file |-> IF res.raised THEN NoFile ELSE res.txt_file,
     action |-> action, error |-> res.error, fault |-> res.fault]

\* results collected in the order of completion: the value goes to the
\* first free slot
StoreInCompletionOrder(action_results, k, result) ==
    LET free == CHOOSE j \in 1..Len(action_results) :
                    /\ ~action_results[j].done
                    /\ \A h \in 1..(j - 1) : action_results[h].done
    IN  [action_results EXCEPT ![free] = result]

\* asyncio.gather: the value returned by the k-th awaitable goes to slot k,
\* whenever it returns
GatherStore(action_results, k, result) == [action_results EXCEPT ![k] = result]

\* lines 303-320: the task starts; every action is handed to a thread
TaskStart(r) ==
    /\ req[r].tpc = "created"
    /\ LET q == req[r]
       IN  req' = [req EXCEPT ![r] =
               IF q.progress_msg = 0 \/ Len(q.placeholder_msgs) = 0
               THEN [q EXCEPT !.tpc = "done"]
               ELSE [q EXCEPT !.tpc = "gather",
                              !.ran = @ \o q.actions,
                              !.action_results = [k \in 1..Len(q.actions) |-> Pending]]]
    /\ UNCHANGED <<next_message_id, open_connections>>

\* lines 311-316: the thread of the k-th action returns or raises; the
\* exception is caught and becomes the error of the result
ActionFinish(r, k, fault) ==
    /\ req[r].tpc = "gather"
    /\ k \in 1..Len(req[r].actions)
    /\ ~req[r].action_results[k].done
    /\ LET q == req[r]
           res == RunAction(q.server_name, q.actions[k], fault)
       IN  /\ req' = [req EXCEPT ![r] =
                   [q EXCEPT !.action_results =
                       GatherStore(@, k, SingleActionResult(q.actions[k], res))]]
           /\ open_connections' = open_connections + res.opened - res.closed
    /\ UNCHANGED next_message_id

\* lines 323-330, over the results from position k on: <<results, errors,
\* all_media_data>>.  "if error" is the truth value of a string: false for ""
RECURSIVE ProcessResults(_, _)
ProcessResults(action_results, k) ==
    IF k > Len(action_results) THEN <<<<>>, <<>>, <<>>>>
    ELSE LET x == action_results[k]
             rest == ProcessResults(action_results, k + 1)
         IN  IF Len(x.error) > 0
             THEN <<<<ErrorLine(x.action, x.error)>> \o rest[1],
                    <<ErrorLine(x.action, x.error)>> \o rest[2],
                    rest[3]>>
             ELSE <<<<x.action>> \o rest[1],
                    rest[2],
                    <<[png_file |-> x.png_file, txt_file |-> x.txt_file,
                       action |-> x.action]>> \o rest[3]>>

\* lines 318-335 and 416: gather returns, the results are sorted into
\* results, errors and all_media_data, and the branch of the delivery is taken
TaskProcess(r) ==
    /\ req[r].tpc = "gather"
    /\ \A k \in 1..Len(req[r].actions) : req[r].action_results[k].done
    /\ LET q == req[r]
           p == ProcessResults(q.action_results, 1)
           all_media_data == p[3]
       IN  req' = [req EXCEPT ![r] =
               [q EXCEPT !.results = p[1], !.errors = p[2], !.all_media_data = all_media_data,
                         !.tpc = IF Len(all_media_data) > 0 /\ Len(q.placeholder_msgs) >= 2
                                 THEN IF Len(all_media_data) = 1 /\ Len(q.actions) = 1
                                      THEN "single_edit_png" ELSE "multi_caption"
                                 ELSE "error_caption"]]
    /\ UNCHANGED <<next_message_id, open_connections>>

\* the task of r dies of an exception
TaskCrash(q, exc) == [q EXCEPT !.tpc = "crashed", !.task_exc = exc]

\* one call of the task on the transport
TaskCall(op, target, text, png, txt, ok) == Call(op, "task", target, text, <<>>, png, txt, ok)

NoCaption == Phrase("")

(***************************************************************************)
(* Delivery, one action that succeeded (lines 335-383).                    *)
(***************************************************************************)
\* the handles of the placeholder group sent last by any request, as a
\* module-level variable shared by all tasks would hold them
TaskHandlesOfLastGroup(rq, r) ==
    LET last == CHOOSE x \in DOMAIN rq :
                    \A y \in DOMAIN rq : rq[y].progress_msg <= rq[x].progress_msg
    IN  rq[last].placeholder_msgs

\* run_deployment_async(progress_msg, placeholder_msgs, ...): the handles
\* are an argument of the coroutine, bound per request
TaskHandles(rq, r) == rq[r].placeholder_msgs

\* line 345: placeholder_msgs[0], the image placeholder
PngPlaceholder(placeholder_msgs) == placeholder_msgs[1]

\* the text edit aimed at the first placeholder again
TxtPlaceholderFirst(placeholder_msgs) == placeholder_msgs[1]

\* line 356: placeholder_msgs[1], the text placeholder
TxtPlaceholder(placeholder_msgs) == placeholder_msgs[2]

\* lines 336-352: the image placeholder is edited to the result image
SingleEditPng(r, ok) ==
    /\ req[r].tpc = "single_edit_png"
    /\ LET q == req[r]
           x == q.all_media_data[1]
           png_file == Seek0(x.png_file)
           txt_file == Seek0(x.txt_file)
           c == TaskCall("edit_message_media", PngPlaceholder(TaskHandles(req, r)),
                         ResultText(x.action, q.server_name), Read(png_file), <<>>, ok)
       IN  req' = [req EXCEPT ![r] =
               IF x.png_file.none
               THEN TaskCrash(q, "AttributeError")
               ELSE [q EXCEPT !.calls = Append(@, c),
                              !.png_file = IF ok THEN Seek0(AfterRead(png_file))
                                           ELSE AfterRead(png_file),
                              !.txt_file = txt_file,
                              !.i = 1,
                              !.tpc = IF ok THEN "single_edit_txt" ELSE "fallback_delete"]]
    /\ UNCHANGED <<next_message_id, open_connections>>

\* lines 354-362: the text placeholder is edited to the result text
SingleEditTxt(r, ok) ==
    /\ req[r].tpc = "single_edit_txt"
    /\ LET q == req[r]
           c == TaskCall("edit_message_media", TxtPlaceholder(TaskHandles(req, r)),
                         NoCaption, <<>>, Read(q.txt_file), ok)
       IN  req' = [req EXCEPT ![r] =
               [q EXCEPT !.calls = Append(@, c),
                         !.png_file = IF ok THEN Close(@) ELSE @,
                         !.txt_file = IF ok THEN Close(AfterRead(@)) ELSE AfterRead(@),
                         !.i = 1,
                         !.tpc = IF ok THEN "done" ELSE "fallback_delete"]]
    /\ UNCHANGED <<next_message_id, open_connections>>

\* lines 364-368: an edit was rejected; each placeholder is deleted, an
\* exception of the transport is swallowed
FallbackDelete(r, ok) ==
    /\ req[r].tpc = "fallback_delete"
    /\ LET q == req[r]
           c == TaskCall("delete", TaskHandles(req, r)[q.i], NoCaption, <<>>, <<>>, ok)
       IN  req' = [req EXCEPT ![r] =
               [q EXCEPT !.calls = Append(@, c),
                         !.i = @ + 1,
                         !.tpc = IF q.i + 1 > Len(TaskHandles(req, r))
                                 THEN "fallback_send" ELSE "fallback_delete"]]
    /\ UNCHANGED <<next_message_id, open_connections>>

\* the files left where the rejected edit stopped reading them
FallbackNoRewind(f) == f

\* lines 369-370: both files are read again from the start
FallbackRewind(f) == Seek0(f)

\* lines 369-383: the result is sent as a new group
FallbackSend(r, ok) ==
    /\ req[r].tpc = "fallback_send"
    /\ LET q == req[r]
           x == q.all_media_data[1]
           png_file == FallbackRewind(q.png_file)
           txt_file == FallbackRewind(q.txt_file)
           c == TaskCall("send_media_group", 0, ResultText(x.action, q.server_name),
                         Read(png_file), Read(txt_file), ok)
       IN  req' = [req EXCEPT ![r] =
               [q EXCEPT !.calls = Append(@, c),
                         !.png_file = IF ok THEN Close(AfterRead(png_file))
                                      ELSE AfterRead(png_file),
                         !.txt_file = IF ok THEN Close(AfterRead(txt_file))
                                      ELSE AfterRead(txt_file),
                         !.tpc = IF ok THEN "done" ELSE "crashed",
                         !.task_exc = IF ok THEN "none" ELSE "TransportError"]]
    /\ UNCHANGED <<next_message_id, open_connections>>

(***************************************************************************)
(* Delivery, several actions or several results (lines 384-415).           *)
(***************************************************************************)
\* lines 386-396: the caption of the first placeholder becomes the result
\* caption of the first action in all_media_data; an exception is swallowed
MultiCaption(r, ok) ==
    /\ req[r].tpc = "multi_caption"
    /\ LET q == req[r]
           first_action == q.all_media_data[1].action
           c == TaskCall("edit_message_caption", TaskHandles(req, r)[1],
                         ResultText(first_action, Server(q.server_name).name),
                         <<>>, <<>>, ok)
       IN  req' = [req EXCEPT ![r] =
               [q EXCEPT !.calls = Append(@, c),
                         !.i = 2,
                         !.tpc = IF Len(q.all_media_data) >= 2 THEN "multi_send"
                                 ELSE "done"]]
    /\ UNCHANGED <<next_message_id, open_connections>>

\* lines 398-415, one turn of the loop: the result of the i-th entry of
\* all_media_data is sent as a new group; an exception of the transport is
\* swallowed, the read of a file that is None is not
MultiSend(r, ok) ==
    /\ req[r].tpc = "multi_send"
    /\ LET q == req[r]
           x == q.all_media_data[q.i]
           c == TaskCall("send_media_group", 0,
                         ResultText(x.action, Server(q.server_name).name),
                         Read(x.png_file), Read(x.txt_file), ok)
       IN  req' = [req EXCEPT ![r] =
               IF x.png_file.none
               THEN TaskCrash(q, "AttributeError")
               ELSE [q EXCEPT !.calls = Append(@, c),
                              !.all_media_data[q.i].png_file = Close(AfterRead(@)),
                              !.all_media_data[q.i].txt_file = Close(AfterRead(@)),
                              !.i = @ + 1,
                              !.tpc = IF q.i + 1 > Len(q.all_media_data) THEN "done"
                                      ELSE "multi_send"]]
    /\ UNCHANGED <<next_message_id, open_connections>>

(***************************************************************************)
(* Delivery, no result to attach (lines 416-437).                          *)
(***************************************************************************)
\* lines 417-423: the caption that lists the errors
ErrorCaptionText(q) ==
    IF Len(q.actions) > 0
    THEN Text("Result of action", q.actions[1], q.server_name, q.errors)
    ELSE Text("Result on", <<>>, q.server_name, <<>>)

\* lines 425-431: the caption of the first placeholder becomes the error
\* caption
ErrorCaption(r, ok) ==
    /\ req[r].tpc = "error_caption"
    /\ LET q == req[r]
           c == TaskCall("edit_message_caption", TaskHandles(req, r)[1],
                         ErrorCaptionText(q), <<>>, <<>>, ok)
       IN  req' = [req EXCEPT ![r] =
               [q EXCEPT !.calls = Append(@, c),
                         !.i = 1,
                         !.tpc = IF ok THEN "done" ELSE "error_delete"]]
    /\ UNCHANGED <<next_message_id, open_connections>>

\* lines 432-436: the caption edit was rejected; each placeholder is deleted
ErrorDelete(r, ok) ==
    /\ req[r].tpc = "error_delete"
    /\ LET q == req[r]
           c == TaskCall("delete", TaskHandles(req, r)[q.i], NoCaption, <<>>, <<>>, ok)
       IN  req' = [req EXCEPT ![r] =
               [q EXCEPT !.calls = Append(@, c),
                         !.i = @ + 1,
                         !.tpc = IF q.i + 1 > Len(TaskHandles(req, r))
                                 THEN "error_send" ELSE "error_delete"]]
    /\ UNCHANGED <<next_message_id, open_connections>>

\* line 437: the error caption is sent as a plain message
ErrorSend(r, ok) ==
    /\ req[r].tpc = "error_send"
    /\ LET q == req[r]
           c == TaskCall("send_message", 0, ErrorCaptionText(q), <<>>, <<>>, ok)
       IN  req' = [req EXCEPT ![r] =
               [q EXCEPT !.calls = Append(@, c),
                         !.tpc = IF ok THEN "done" ELSE "crashed",
                         !.task_exc = IF ok THEN "none" ELSE "TransportError"]]
    /\ UNCHANGED <<next_message_id, open_connections>>

(***************************************************************************)
(* The specification: one request, from any chat, with any command line or *)
(* callback token; every remote command may fail and the transport may     *)
(* reject every call.                                                      *)
(***************************************************************************)
Next ==
    \E r \in Reqs :
        \/ \E chat_id \in Chats, args \in ArgLists, ok \in BOOLEAN :
              StartCommand(r, chat_id, args, ok)
        \/ \E ok \in BOOLEAN : UseCaseInfo(r, ok)
        \/ \E fault \in Faults : UseCaseRun(r, fault)
        \/ \E ok \in BOOLEAN : UseCaseSend(r, ok)
        \/ \E chat_id \in Chats, data \in Tokens, ok \in BOOLEAN :
              StartCallback(r, chat_id, data, ok)
        \/ \E ok \in BOOLEAN : DeleteMenu(r, ok)
        \/ \E ok \in BOOLEAN : ShowMenu(r, ok)
        \/ \E ok \in BOOLEAN : AnswerCallback(r, ok)
        \/ TaskStart(r)
        \/ \E k \in 1..MaxActions, fault \in Faults : ActionFinish(r, k, fault)
        \/ TaskProcess(r)
        \/ \E ok \in BOOLEAN : SingleEditPng(r, ok)
        \/ \E ok \in BOOLEAN : SingleEditTxt(r, ok)
        \/ \E ok \in BOOLEAN : FallbackDelete(r, ok)
        \/ \E ok \in BOOLEAN : FallbackSend(r, ok)
        \/ \E ok \in BOOLEAN : MultiCaption(r, ok)
        \/ \E ok \in BOOLEAN : MultiSend(r, ok)
        \/ \E ok \in BOOLEAN : ErrorCaption(r, ok)
        \/ \E ok \in BOOLEAN : ErrorDelete(r, ok)
        \/ \E ok \in BOOLEAN : ErrorSend(r, ok)

Spec == Init /\ [][Next]_vars

\* the next step of the handler coroutine of a request that has started
HandlerStep(r) ==
    \/ \E ok \in BOOLEAN : UseCaseInfo(r, ok)
    \/ \E fault \in Faults : UseCaseRun(r, fault)
    \/ \E ok \in BOOLEAN : UseCaseSend(r, ok)
    \/ \E ok \in BOOLEAN : DeleteMenu(r, ok)
    \/ \E ok \in BOOLEAN : ShowMenu(r, ok)
    \/ \E ok \in BOOLEAN : AnswerCallback(r, ok)

\* the next step of the background task of a request
TaskStep(r) ==
    \/ TaskStart(r)
    \/ \E k \in 1..MaxActions, fault \in Faults : ActionFinish(r, k, fault)
    \/ TaskProcess(r)
    \/ \E ok \in BOOLEAN : SingleEditPng(r, ok)
    \/ \E ok \in BOOLEAN : SingleEditTxt(r, ok)
    \/ \E ok \in BOOLEAN : FallbackDelete(r, ok)
    \/ \E ok \in BOOLEAN : FallbackSend(r, ok)
    \/ \E ok \in BOOLEAN : MultiCaption(r, ok)
    \/ \E ok \in BOOLEAN : MultiSend(r, ok)
    \/ \E ok \in BOOLEAN : ErrorCaption(r, ok)
    \/ \E ok \in BOOLEAN : ErrorDelete(r, ok)
    \/ \E ok \in BOOLEAN : ErrorSend(r, ok)

\* The event loop resumes every coroutine whose awaited call has returned
\* or raised, and every transport call and every remote command returns or
\* raises: a handler or a task that can take a step eventually takes one.
\* No request is bound to arrive.
Fairness == \A r \in Reqs : WF_vars(HandlerStep(r)) /\ WF_vars(TaskStep(r))

LiveSpec == Spec /\ Fairness

(***************************************************************************)
(* Concurrent requests.  Several callback handlers and their background    *)
(* tasks run on one event loop and interleave at every await.  Each        *)
(* request is a click on deploy:action:alpha:build; the command succeeds    *)
(* or fails and the edits of the delivery are accepted or rejected, so     *)
(* that every edit and every delete of the three branches can happen; the  *)
(* handler's own calls, the deletes and the sends are accepted.            *)
(***************************************************************************)
MaxRequests == 2

ConcReqs == 1..MaxRequests

\* the second request comes from chat 2, every other request from chat 1
ConcChat(r) == IF r = 2 THEN 2 ELSE 1

ConcToken == ActionToken(S("alpha"), S("build"))

ConcFaults == {"none", "exec"}

ConcInit ==
    /\ req = [r \in ConcReqs |-> Idle]
    /\ next_message_id = 1
    /\ open_connections = 0

\* requests are numbered in the order of their arrival
ConcNext ==
    \E r \in ConcReqs :
        \/ /\ r > 1 => req[r - 1].hpc # "idle"
           /\ StartCallback(r, ConcChat(r), ConcToken, TRUE)
        \/ DeleteMenu(r, TRUE)
        \/ ShowMenu(r, TRUE)
        \/ AnswerCallback(r, TRUE)
        \/ TaskStart(r)
        \/ \E fault \in ConcFaults : ActionFinish(r, 1, fault)
        \/ TaskProcess(r)
        \/ \E ok \in BOOLEAN : SingleEditPng(r, ok)
        \/ \E ok \in BOOLEAN : SingleEditTxt(r, ok)
        \/ FallbackDelete(r, TRUE)
        \/ FallbackSend(r, TRUE)
        \/ \E ok \in BOOLEAN : ErrorCaption(r, ok)
        \/ ErrorDelete(r, TRUE)
        \/ ErrorSend(r, TRUE)

ConcSpec == ConcInit /\ [][ConcNext]_vars

(***************************************************************************)
(* Properties.                                                             *)
(***************************************************************************)
\* the calls of the background task of a request, in order
TaskCalls(q) == SelectSeq(q.calls, LAMBDA c : c.who = "task")

\* the bytes of the image and of the text file of the result of an action
PngBytes(server_name, action) == <<"png", "output">> \o server_name \o action

TxtBytes(server_name, action) == <<"txt", "output">> \o server_name \o action

\* gather has returned and its results were sorted into the three lists
Processed(q) ==
    /\ q.tpc \notin {"none", "created", "gather"}
    /\ Len(q.action_results) = Len(q.actions)
    /\ Len(q.actions) > 0

\* the elements of seq at the positions where keep is true, in order
RECURSIVE Kept(_, _, _)
Kept(seq, keep, k) ==
    IF k > Len(seq) THEN <<>>
    ELSE (IF keep[k] THEN <<seq[k]>> ELSE <<>>) \o Kept(seq, keep, k + 1)

\* C1: a remote command is run for a request only if the server exists and
\* the requesting chat is in the global allow-list or in the allow-list of
\* that server, on the command path and on the callback path alike
C1_RunOnlyIfAllowed ==
    \A r \in Reqs :
        Len(req[r].ran) > 0 =>
            /\ req[r].server_name \in Range(ServerNames)
            /\ \/ req[r].chat_id \in GlobalAllowed
               \/ req[r].chat_id \in Server(req[r].server_name).allowed_chat_ids

\* C1 witness: a chat that is in the allow-list of alpha only has run a
\* remote command on alpha from a callback token
C1_Witness ==
    \E r \in Reqs :
        /\ req[r].kind = "callback"
        /\ req[r].chat_id = 2
        /\ req[r].server_name = S("alpha")
        /\ Len(req[r].ran) > 0

\* C2: whatever the order in which the remote commands finish, the k-th
\* collected result belongs to the k-th requested action, and results,
\* errors and all_media_data list the actions in the order of the request
C2_OutcomesInRequestOrder ==
    \A r \in Reqs :
        LET q == req[r]
            failed == [k \in 1..Len(q.action_results) |-> Len(q.action_results[k].error) > 0]
            succeeded == [k \in 1..Len(q.action_results) |-> ~failed[k]]
            lines == [k \in 1..Len(q.action_results) |->
                         q.actions[k] \o <<Colon>> \o q.action_results[k].error]
        IN  /\ \A k \in 1..Len(q.action_results) :
                   q.action_results[k].done => q.action_results[k].action = q.actions[k]
            /\ Processed(q) =>
                   /\ Len(q.results) = Len(q.actions)
                   /\ \A k \in 1..Len(q.actions) :
                          q.results[k] = IF failed[k] THEN lines[k] ELSE q.actions[k]
                   /\ q.errors = Kept(lines, failed, 1)
                   /\ [j \in 1..Len(q.all_media_data) |-> q.all_media_data[j].action]
                          = Kept(q.actions, succeeded, 1)

\* C2 witness: of three actions the last has finished, the first has not
C2_Witness ==
    \E r \in Reqs :
        /\ Len(req[r].action_results) = 3
        /\ req[r].action_results[3].done
        /\ ~req[r].action_results[1].done

\* every call the task of a request made was accepted by the transport
TaskCallsAccepted(q) == \A n \in 1..Len(q.calls) : q.calls[n].who = "task" => q.calls[n].ok

\* an accepted call of the task shows the image and the text of the result
\* of the action
Rendered(q, action) ==
    /\ \E n \in 1..Len(q.calls) :
           /\ q.calls[n].who = "task" /\ q.calls[n].ok
           /\ q.calls[n].png = PngBytes(q.server_name, action)
    /\ \E n \in 1..Len(q.calls) :
           /\ q.calls[n].who = "task" /\ q.calls[n].ok
           /\ q.calls[n].txt = TxtBytes(q.server_name, action)

\* an accepted call of the task shows an error line that names the action
ErrorShown(q, action) ==
    \E n \in 1..Len(q.calls) :
        /\ q.calls[n].who = "task" /\ q.calls[n].ok
        /\ \E l \in 1..Len(q.calls[n].text.lines) :
               StartsWith(q.calls[n].text.lines[l], action \o <<Colon>>)

\* C3 (as claimed, refuted): when the delivery of a request has ended and the
\* transport accepted every call of it, the chat shows the rendered result
\* (image and text) of every action that succeeded and an error line naming
\* every action that failed
C3_EveryActionHasVisibleOutcome ==
    \A r \in Reqs :
        LET q == req[r]
        IN  (Processed(q) /\ q.tpc = "done" /\ TaskCallsAccepted(q)) =>
                \A k \in 1..Len(q.actions) :
                    IF q.action_results[k].fault = "none"
                    THEN Rendered(q, q.actions[k])
                    ELSE ErrorShown(q, q.actions[k])

\* C4: in a request started from the menu every action is run, and each
\* collected result is the outcome of its own action alone: the files of the
\* output of that action if its command succeeded, the text of its own
\* exception if it failed, whatever happened to the other actions
C4_FailuresAreIsolated ==
    \A r \in Reqs :
        LET q == req[r]
        IN  /\ q.tpc \notin {"none", "created"} => q.ran = q.actions
            /\ Processed(q) => \A k \in 1..Len(q.actions) : q.action_results[k].done
            /\ \A k \in 1..Len(q.action_results) :
                   LET x == q.action_results[k]
                   IN  x.done =>
                           IF x.fault = "none"
                           THEN /\ x.error = <<>>
                                /\ ~x.png_file.none /\ ~x.txt_file.none
                                /\ x.png_file.data = PngBytes(q.server_name, q.actions[k])
                                /\ x.txt_file.data = TxtBytes(q.server_name, q.actions[k])
                           ELSE /\ x.error = ErrorOf(x.fault)
                                /\ x.png_file.none /\ x.txt_file.none

\* C4 witness: gather has returned for three actions of which the second
\* failed with a message and the first and the third succeeded
C4_Witness ==
    \E r \in Reqs :
        /\ Processed(req[r])
        /\ Len(req[r].actions) = 3
        /\ req[r].action_results[1].fault = "none"
        /\ req[r].action_results[2].fault = "exec"
        /\ req[r].action_results[2].error = S("command failed")
        /\ req[r].action_results[3].fault = "none"

\* every call the handler of a request made was accepted by the transport
CallsAccepted(q) == \A n \in 1..Len(q.calls) : q.calls[n].ok

\* C5 (as claimed, refuted): a direct command that resolves to several
\* actions, with every call accepted by the transport, ends with every action
\* of the list run and without an unhandled exception of a remote command
C5_CommandFailureDoesNotAbort ==
    \A r \in Reqs :
        LET q == req[r]
        IN  (/\ q.kind = "command" /\ Len(q.actions) >= 2
             /\ q.hpc \in {"done", "crashed"} /\ CallsAccepted(q)) =>
                /\ q.ran = q.actions
                /\ q.exc # "ExecError"

\* the server name and the action selector a request asks for: the two
\* arguments of the command, or the third and the fourth field of the token
Fields(q) == Split(q.data, Len(q.data))

AsksAction(q) ==
    IF q.kind = "command" THEN Len(q.args) = 2
    ELSE q.kind = "callback" /\ Len(Fields(q)) = 4 /\ Fields(q)[2] = S("action")

AskedServer(q) == IF q.kind = "command" THEN q.args[1] ELSE Fields(q)[3]

AskedSelector(q) == IF q.kind = "command" THEN q.args[2] ELSE Fields(q)[4]

\* the requester of q is in the global allow-list or in the one of server
MayDeploy(q, server) ==
    q.chat_id \in GlobalAllowed \/ q.chat_id \in Server(server).allowed_chat_ids

\* C6 (as claimed, refuted): the selector all, asked by an allowed requester
\* for a server whose allow_run_all is false, runs no remote command and is
\* answered with "Action not found"
C6_RunAllRejectedWhenNotAllowed ==
    \A r \in Reqs :
        LET q == req[r]
        IN  (/\ AsksAction(q) /\ AskedSelector(q) = All
             /\ AskedServer(q) \in Range(ServerNames)
             /\ ~Server(AskedServer(q)).allow_run_all
             /\ MayDeploy(q, AskedServer(q))) =>
                /\ q.ran = <<>>
                /\ (q.hpc \in {"done", "crashed"} /\ CallsAccepted(q)) =>
                       \E n \in 1..Len(q.calls) : q.calls[n].text.kind = "Action not found"

\* C7 (as claimed, refuted): a direct command of an allowed requester that
\* names a known server and an action the server does not have is answered
\* with "Action not found", runs no remote command and raises no exception
\* on the missing action
C7_UnknownActionOfCommandIsReported ==
    \A r \in Reqs :
        LET q == req[r]
        IN  (/\ q.kind = "command" /\ Len(q.args) = 2
             /\ q.args[1] \in Range(ServerNames)
             /\ MayDeploy(q, q.args[1])
             /\ q.args[2] # All
             /\ q.args[2] \notin Range(Server(q.args[1]).actions)) =>
                /\ q.ran = <<>>
                /\ q.exc # "AttributeError"
                /\ (q.hpc \in {"done", "crashed"} /\ CallsAccepted(q)) =>
                       \E n \in 1..Len(q.calls) : q.calls[n].text.kind = "Action not found"

\* the token of a callback request names no server of the registry
NamesUnknownServer(q) ==
    /\ Fields(q)[2] \in {S("server"), S("action")}
    /\ IF Fields(q)[2] = S("server") THEN Len(Fields(q)) = 3 ELSE Len(Fields(q)) >= 4
    /\ Fields(q)[3] \notin Range(ServerNames)

\* the token names a server of the registry and no action of it
NamesUnknownAction(q) ==
    /\ Fields(q)[2] = S("action")
    /\ Len(Fields(q)) >= 4
    /\ Fields(q)[3] \in Range(ServerNames)
    /\ \/ Len(Fields(q)) > 4
       \/ /\ Fields(q)[4] # All
          /\ Fields(q)[4] \notin Range(Server(Fields(q)[3]).actions)

\* the token is of no known variant, or lacks a field of its variant
HasUnknownShape(q) ==
    \/ Fields(q)[2] \notin {S("menu"), S("server"), S("action")}
    \/ Fields(q)[2] = S("server") /\ Len(Fields(q)) < 3
    \/ Fields(q)[2] = S("action") /\ Len(Fields(q)) < 4

NotFoundToken(q) ==
    /\ q.kind = "callback"
    /\ NamesUnknownServer(q) \/ NamesUnknownAction(q) \/ HasUnknownShape(q)

NotFoundKinds == {"Server not found", "Action not found", "Unknown action"}

\* the request made one call that shows text and at most the empty
\* callback.answer() after it; it ran nothing and sent no group
OnlyResponds(q, kinds) ==
    /\ q.ran = <<>>
    /\ q.placeholder_msgs = <<>>
    /\ q.tpc = "none"
    /\ Len(q.calls) \in {1, 2}
    /\ q.calls[1].op \in {"reply", "edit_text", "answer"}
    /\ q.calls[1].text.kind \in kinds
    /\ Len(q.calls) = 2 => (q.calls[2].op = "answer" /\ q.calls[2].text.kind = "")

\* C8 (as claimed, refuted): every token that names an unknown server, an
\* unknown action of a known server, or has an unknown or incomplete shape
\* is answered with a not-found or unknown-action response, and nothing else
\* is done for it
C8_NotFoundTokenIsAnswered ==
    \A r \in Reqs : NotFoundToken(req[r]) => OnlyResponds(req[r], NotFoundKinds)

\* C8 (amended): such a token is answered with a not-found or unknown-action
\* response and nothing else is done for it, except that an action token
\* naming a known server, sent from a chat that may not deploy to that server,
\* is answered with the access refusal and nothing else is done for it
C8_NotFoundTokenIsAnsweredOrRefused ==
    \A r \in Reqs :
        LET q == req[r]
        IN  NotFoundToken(q) =>
                IF NamesUnknownAction(q) /\ ~MayDeploy(q, Fields(q)[3])
                THEN OnlyResponds(q, {"You are not allowed to deploy to this server"})
                ELSE OnlyResponds(q, NotFoundKinds)

\* C8 witness: an allowed chat sent an action token with an unknown action
\* of alpha, was told so, and the handler returned
C8_Witness ==
    \E r \in Reqs :
        /\ req[r].data = ActionToken(S("alpha"), Nope)
        /\ req[r].chat_id = 2
        /\ req[r].hpc = "done"
        /\ req[r].calls[1].text.kind = "Action not found"
        /\ req[r].calls[1].ok

\* the request has one action, which succeeded, and its delivery has ended
SingleSuccessDelivered(q) ==
    /\ Processed(q)
    /\ Len(q.actions) = 1
    /\ q.action_results[1].fault = "none"
    /\ q.tpc \in {"done", "crashed"}

\* the caption of the result of the only action of q
SingleCaption(q) == Text("Result of action", q.actions[1], q.server_name, <<>>)

\* C9: one action that succeeded and both media edits accepted: the task
\* made exactly two calls, the edit of the first placeholder to the result
\* image with the result caption and the edit of the second placeholder to
\* the result text; it deleted nothing and sent nothing
C9_SingleSuccessEditsBothPlaceholders ==
    \A r \in Reqs :
        LET q == req[r]
            tc == TaskCalls(q)
        IN  (SingleSuccessDelivered(q) /\ Len(tc) >= 2 /\ tc[1].ok /\ tc[2].ok) =>
                /\ Len(tc) = 2
                /\ q.tpc = "done"
                /\ tc[1].op = "edit_message_media"
                /\ tc[1].target = q.placeholder_msgs[1]
                /\ tc[1].png = PngBytes(q.server_name, q.actions[1])
                /\ tc[1].text = SingleCaption(q)
                /\ tc[2].op = "edit_message_media"
                /\ tc[2].target = q.placeholder_msgs[2]
                /\ tc[2].txt = TxtBytes(q.server_name, q.actions[1])
                /\ q.placeholder_msgs[1] # q.placeholder_msgs[2]

\* C9 witness: a single action succeeded and both edits were accepted
C9_Witness ==
    \E r \in Reqs :
        /\ SingleSuccessDelivered(req[r])
        /\ Len(TaskCalls(req[r])) = 2
        /\ TaskCalls(req[r])[1].ok
        /\ TaskCalls(req[r])[2].ok

\* C10: one action that succeeded and the first or the second media edit
\* rejected: after the rejected edit the task deletes the first and the
\* second placeholder, once each, and then sends one group that carries the
\* result caption, the whole result image and the whole result text; it
\* makes no other call, and ends normally if the group is accepted
C10_RejectedEditFallsBackToResend ==
    \A r \in Reqs :
        LET q == req[r]
            tc == TaskCalls(q)
            n == IF tc[1].ok THEN 2 ELSE 1
        IN  (SingleSuccessDelivered(q) /\ Len(tc) >= 2 /\ (~tc[1].ok \/ ~tc[2].ok)) =>
                /\ \A m \in 1..n : tc[m].op = "edit_message_media"
                /\ Len(tc) = n + 3
                /\ tc[n + 1].op = "delete" /\ tc[n + 1].target = q.placeholder_msgs[1]
                /\ tc[n + 2].op = "delete" /\ tc[n + 2].target = q.placeholder_msgs[2]
                /\ tc[n + 3].op = "send_media_group"
                /\ tc[n + 3].text = SingleCaption(q)
                /\ tc[n + 3].png = PngBytes(q.server_name, q.actions[1])
                /\ tc[n + 3].txt = TxtBytes(q.server_name, q.actions[1])
                /\ tc[n + 3].ok <=> q.tpc = "done"

\* C10 witness: the image edit was accepted, the text edit rejected, and
\* the group sent in their place was accepted
C10_Witness ==
    \E r \in Reqs :
        /\ SingleSuccessDelivered(req[r])
        /\ Len(TaskCalls(req[r])) = 5
        /\ TaskCalls(req[r])[1].ok
        /\ ~TaskCalls(req[r])[2].ok
        /\ TaskCalls(req[r])[5].op = "send_media_group"
        /\ TaskCalls(req[r])[5].ok

\* every action of the request failed and the delivery of the request has ended
AllFailed(q) ==
    /\ Processed(q)
    /\ \A k \in 1..Len(q.actions) : q.action_results[k].fault # "none"
    /\ q.tpc \in {"done", "crashed"}

\* the composite message of a request: one line per requested action, the
\* name of the action with the text of its error
Composite(q) ==
    Text("Result of action", q.actions[1], q.server_name,
         [k \in 1..Len(q.actions) |-> q.actions[k] \o <<Colon>> \o q.action_results[k].error])

\* C11: every action of the request failed: the first call of the task is
\* the edit of the caption of the first placeholder to the composite message,
\* which has a line with the name and the error text of every requested
\* action; if the edit is accepted the task makes no other call, and if it is
\* rejected the task deletes every placeholder of the request and then sends
\* the same composite message once as plain text
C11_AllFailedShowsComposite ==
    \A r \in Reqs :
        LET q == req[r]
            tc == TaskCalls(q)
            n == Len(q.placeholder_msgs)
        IN  AllFailed(q) =>
                /\ Len(tc) >= 1
                /\ tc[1].op = "edit_message_caption"
                /\ tc[1].target = q.placeholder_msgs[1]
                /\ tc[1].text = Composite(q)
                /\ tc[1].ok => Len(tc) = 1
                /\ ~tc[1].ok =>
                       /\ Len(tc) = n + 2
                       /\ \A m \in 1..n : tc[m + 1].op = "delete"
                                          /\ tc[m + 1].target = q.placeholder_msgs[m]
                       /\ tc[n + 2].op = "send_message"
                       /\ tc[n + 2].text = Composite(q)

\* the prefix of the callback_data of every action button
ActionPrefix == <<"deploy", Colon, "action", Colon>>

\* the call shows at least one action button
ShowsActionButton(c) == \E m \in 1..Len(c.markup) : StartsWith(c.markup[m], ActionPrefix)

\* the request names a server of the registry, by a server token, an action
\* token or the first argument of the command, and its requester is in
\* neither allow-list
Denied(q) ==
    LET named == IF q.kind = "command" THEN Len(q.args) = 2
                 ELSE /\ q.kind = "callback"
                      /\ \/ Fields(q)[2] = S("server") /\ Len(Fields(q)) >= 3
                         \/ Fields(q)[2] = S("action") /\ Len(Fields(q)) >= 4
    IN  /\ named
        /\ AskedServer(q) \in Range(ServerNames)
        /\ ~MayDeploy(q, AskedServer(q))

Refusal == "You are not allowed to deploy to this server"

\* C12: a call shows action buttons only as the action screen of a server
\* on which the requester may deploy, whichever way the screen was reached;
\* a request of a requester who may not deploy on the server it names makes
\* one call, the refusal, and at most the empty acknowledgement of the
\* callback after it: no action button, no placeholder group, no delete and
\* no remote command
C12_ActionListOnlyForAllowed ==
    \A r \in Reqs :
        LET q == req[r]
        IN  /\ \A n \in 1..Len(q.calls) :
                   ShowsActionButton(q.calls[n]) =>
                       /\ q.calls[n].text.kind = "Select an action for server"
                       /\ q.calls[n].text.server \in Range(ServerNames)
                       /\ MayDeploy(q, q.calls[n].text.server)
            /\ (Denied(q) /\ q.hpc # "idle") =>
                   /\ OnlyResponds(q, {Refusal})
                   /\ q.calls[1].markup = <<>>

\* C12 witness: chat 3, in no allow-list, clicked deploy:server:alpha and
\* was shown the refusal and nothing else
C12_Witness ==
    \E r \in Reqs :
        /\ req[r].data = ServerToken(S("alpha"))
        /\ req[r].chat_id = 3
        /\ req[r].hpc = "done"
        /\ Len(req[r].calls) = 2
        /\ req[r].calls[1].text.kind = Refusal
        /\ req[r].calls[1].ok

\* the call is the action screen of some server
IsActionScreen(c) == c.text.kind = "Select an action for server"

\* C13: every action screen shown has, in this order, one button
\* deploy:action:<server>:<action> per action of the server in the declared
\* order of the actions, then the button deploy:action:<server>:all if and
\* only if the server has allow_run_all, then the button deploy:menu; the
\* screen of a server without allow_run_all has no button whose selector is
\* all
C13_ActionScreenButtons ==
    \A r \in Reqs : \A n \in 1..Len(req[r].calls) :
        LET c == req[r].calls[n]
            server == c.text.server
            declared == Server(server).actions
            count == Len(declared)
            run_all == Server(server).allow_run_all
            last == Len(c.markup)
        IN  IsActionScreen(c) =>
                /\ server \in Range(ServerNames)
                /\ last = count + (IF run_all THEN 1 ELSE 0) + 1
                /\ \A k \in 1..count :
                       c.markup[k] = ActionPrefix \o server \o <<Colon>> \o declared[k]
                /\ run_all => c.markup[count + 1] = ActionPrefix \o server \o <<Colon, "all">>
                /\ c.markup[last] = <<"deploy", Colon, "menu">>
                /\ ~run_all => \A m \in 1..last :
                       Len(Split(c.markup[m], 3)) < 4 \/ Split(c.markup[m], 3)[4] # <<"all">>

\* C13 witness: the action screen of beta, which has two actions and no
\* allow_run_all, was shown with three buttons
C13_Witness ==
    \E r \in Reqs : \E n \in 1..Len(req[r].calls) :
        /\ IsActionScreen(req[r].calls[n])
        /\ req[r].calls[n].text.server = S("beta")
        /\ Len(req[r].calls[n].markup) = 3
        /\ req[r].calls[n].ok

\* the call is the server menu
IsServerMenu(c) == c.text.kind = "Select a server:"

\* what handle_deploy_callback does with a token: the branch it takes for
\* the fields it splits the token into
Parsed(token) == Dispatch(Split(token, 3))

\* C14: the names of the registry have no colon, and every token that a
\* screen emits is parsed back into the variant, the server name and the
\* selector it was built from, and handed to the handler of that variant:
\* the m-th button of the server menu to the action selection of the m-th
\* listed server, the k-th action button of the screen of a server to the
\* execution of the k-th action on that server, the run-all button to the
\* execution of all on that server, the back button to the server selection
C14_EmittedTokensRoundTrip ==
    \A r \in Reqs : \A n \in 1..Len(req[r].calls) :
        LET c == req[r].calls[n]
            server == c.text.server
            declared == Server(server).actions
            listed == Kept(ServerNames,
                           [k \in 1..Len(ServerNames) |-> MayDeploy(req[r], ServerNames[k])], 1)
        IN  /\ IsServerMenu(c) =>
                   /\ Len(c.markup) = Len(listed)
                   /\ \A m \in 1..Len(c.markup) :
                          /\ Colon \notin Range(listed[m])
                          /\ Parsed(c.markup[m]) =
                                 [handler |-> "show_action_selection",
                                  server_name |-> listed[m], action_name |-> <<>>]
            /\ IsActionScreen(c) =>
                   /\ Colon \notin Range(server)
                   /\ Len(c.markup) > Len(declared)
                   /\ \A m \in 1..Len(c.markup) :
                          Parsed(c.markup[m]) =
                              IF m <= Len(declared)
                              THEN [handler |-> "execute_deployment",
                                    server_name |-> server, action_name |-> declared[m]]
                              ELSE IF m < Len(c.markup)
                              THEN [handler |-> "execute_deployment",
                                    server_name |-> server, action_name |-> <<"all">>]
                              ELSE [handler |-> "show_server_selection",
                                    server_name |-> <<>>, action_name |-> <<>>]
                   /\ \A m \in 1..Len(declared) : Colon \notin Range(declared[m])

\* C14 witness: the token deploy:server:alpha of the server menu was
\* clicked and parsed, and the action screen of alpha was shown for it with
\* its action buttons, its run-all button and its back button
C14_Witness ==
    \E r \in Reqs : \E n \in 1..Len(req[r].calls) :
        /\ req[r].kind = "callback"
        /\ req[r].data = <<"deploy", Colon, "server", Colon, "alpha">>
        /\ IsActionScreen(req[r].calls[n])
        /\ req[r].calls[n].text.server = S("alpha")
        /\ Len(req[r].calls[n].markup) = MaxActions + 2

\* the servers of the registry on which the requester of q may deploy, in
\* registry order
Reachable(q) ==
    Kept(ServerNames, [k \in 1..Len(ServerNames) |-> MayDeploy(q, ServerNames[k])], 1)

\* the call is the screen that tells the requester they can reach no server
IsNoAccess(c) == c.text.kind = "You don't have access to any servers."

\* the request entered the menu: a direct command without exactly two
\* arguments, or a deploy:menu token
MenuByCommand(q) == q.kind = "command" /\ Len(q.args) # 2

MenuByToken(q) == q.kind = "callback" /\ Parsed(q.data).handler = "show_server_selection"

\* C15: a server menu lists the servers the requester may deploy on, all
\* of them and no other, in registry order; a requester who can reach none is
\* shown the no-access screen, which has no button; the menu is replaced by
\* the action screen of the only reachable server when the request is a
\* direct command without exactly two arguments and exactly one server is
\* reachable, and never for a deploy:menu token or for the menu sent again
\* after a deployment was started
C15_MenuListsReachableServers ==
    \A r \in Reqs :
        LET q == req[r]
            listed == Reachable(q)
        IN  /\ \A n \in 1..Len(q.calls) :
                   LET c == q.calls[n]
                   IN  /\ IsServerMenu(c) =>
                              /\ Len(listed) >= 1
                              /\ c.markup = [m \in 1..Len(listed) |->
                                                <<"deploy", Colon, "server", Colon>> \o listed[m]]
                       /\ IsNoAccess(c) => (listed = <<>> /\ c.markup = <<>>)
                       /\ (c.who = "handler" /\ c.op = "send_message") => IsServerMenu(c)
                       /\ (IsActionScreen(c) /\ q.kind = "command") =>
                              (MenuByCommand(q) /\ listed = <<c.text.server>>)
                       /\ (IsActionScreen(c) /\ q.kind = "callback") =>
                              Parsed(q.data).handler = "show_action_selection"
            /\ MenuByCommand(q) =>
                   /\ Len(q.calls) = 1
                   /\ IF listed = <<>> THEN IsNoAccess(q.calls[1])
                      ELSE IF Len(listed) = 1 THEN IsActionScreen(q.calls[1])
                      ELSE IsServerMenu(q.calls[1])
            /\ MenuByToken(q) =>
                   IF listed = <<>> THEN IsNoAccess(q.calls[1]) ELSE IsServerMenu(q.calls[1])

\* C15 witness: chat 2, who can reach alpha only, clicked deploy:menu and
\* was shown the server menu with the one button of alpha
C15_Witness ==
    \E r \in Reqs :
        /\ MenuByToken(req[r])
        /\ req[r].chat_id = 2
        /\ IsServerMenu(req[r].calls[1])
        /\ Len(req[r].calls[1].markup) = 1
        /\ req[r].calls[1].ok

\* every remote command of the request has returned or raised
AllActionsFinished(q) ==
    \/ q.tpc \notin {"none", "created", "gather"}
    \/ q.kind = "command" /\ q.hpc \in {"done", "crashed"}

\* C16 (as claimed, refuted): once every action of a request has finished,
\* whether its command succeeded or failed, no connection opened by
\* run_action is still open
C16_NoConnectionLeftOpen ==
    \A r \in Reqs : AllActionsFinished(req[r]) => open_connections = 0

\* the placeholder group of the request was sent and its handles are kept
PlaceholdersSent(q) == Len(q.placeholder_msgs) > 0

\* the delivery of the request came to the end of one of its branches: the
\* task ended normally, or its last call was the resend of the results or the
\* plain-text error message
Resolved(q) ==
    \/ q.tpc = "done"
    \/ /\ q.tpc = "crashed"
       /\ Len(TaskCalls(q)) > 0
       /\ TaskCalls(q)[Len(TaskCalls(q))].op \in {"send_media_group", "send_message"}

\* C17 (as claimed, refuted): every request whose placeholders were sent
\* eventually is resolved, whichever transport calls are rejected
C17_PlaceholdersLeadToResolved ==
    \A r \in Reqs : PlaceholdersSent(req[r]) ~> Resolved(req[r])

\* neither the handler nor the task of the request has a step left
Stopped(q) ==
    /\ q.hpc \in {"done", "crashed"}
    /\ q.tpc \in {"none", "done", "crashed"}

\* C18 (as claimed, refuted): the execution of the commands does not depend
\* on the delete of the old menu or on the sending of the new one: a request
\* whose placeholders were sent and which has come to a stop has had the
\* command of each of its actions started, whatever became of the two menu
\* calls
C18_MenuFailureDoesNotPreventExecution ==
    \A r \in Reqs :
        (PlaceholdersSent(req[r]) /\ Stopped(req[r])) => req[r].ran = req[r].actions

\* the actions of the request whose command succeeded, in action order
Succeeded(q) ==
    Kept(q.actions, [k \in 1..Len(q.actions) |-> q.action_results[k].fault = "none"], 1)

\* the actions named by the groups the task sent (accepted or not), in the
\* order of the sends
SentActions(q) ==
    LET sends == SelectSeq(TaskCalls(q), LAMBDA c : c.op = "send_media_group")
    IN  [n \in 1..Len(sends) |-> sends[n].text.action]

\* C19 (as claimed, refuted): a request of two or more actions of which at
\* least one succeeded, when its delivery has ended: the groups sent for the
\* successful actions after the first are one per such action, in action
\* order, whatever calls of the task were rejected
C19_LaterSendsAttemptedOnceInOrder ==
    \A r \in Reqs :
        LET q == req[r]
            later == Tail(Succeeded(q))
        IN  (/\ Processed(q) /\ q.tpc \in {"done", "crashed"}
             /\ Len(q.actions) >= 2 /\ Len(Succeeded(q)) >= 1) =>
                SelectSeq(SentActions(q), LAMBDA a : a \in Range(later)) = later

\* the calls by which a delivery changes or removes a message
Touches(c) == c.who = "task" /\ c.op \in {"edit_message_media", "edit_message_caption", "delete"}

====
